---- MODULE Spec2Model ----
(***************************************************************************)
(* A model of the Little Man Computer interpreter and parser of            *)
(* darraghd493/lmc-interpreter.                                            *)
(*                                                                         *)
(*   src/src/common/Opcodes.ts          the opcodes and the I/O codes      *)
(*   src/src/interpreter/Interpreter.ts the execution engine               *)
(*   src/unnamed/part_001               the parser (parser/Parser.ts)      *)
(*                                                                         *)
(* JavaScript values are modelled as records of one shape, so that a cell  *)
(* or the accumulator can hold a number, NaN or undefined, as they can in  *)
(* the program.  Numbers of the model stay inside the 32-bit signed range, *)
(* where JavaScript's ToInt32 is the identity.                             *)
(***************************************************************************)
EXTENDS Integers, Sequences, FiniteSets, TLC

VARIABLES
    options,              \* InterpreterOptions: program, memorySize, appendHalt, and of
                          \* the events whether onDump is given and what onInput may return
    accumulator,          \* Interpreter.accumulator (a JavaScript value)
    programCounter,       \* Interpreter.programCounter
    instructionRegister,  \* Interpreter.instructionRegister
    addressRegister,      \* Interpreter.addressRegister
    memory,               \* Interpreter.memory (a JavaScript array, 0-based)
    runState,             \* position of the caller inside run()
    calls,                \* host callbacks invoked by the latest run() or step()
    last,                 \* what the latest public call fetched and returned
    runOrigin,            \* what the host called just before the latest run()
    parserOptions,        \* Parser.options: program, comments, splitLines
    result                \* what Parser.parse() returned, once it was called

vars == <<options, accumulator, programCounter, instructionRegister,
          addressRegister, memory, runState, calls, last, runOrigin,
          parserOptions, result>>

-----------------------------------------------------------------------------
(* JavaScript values *)

\* A string is the sequence of its characters, <<"h", "l", "t">>;
\* Chr(c) is the one-character string of code unit c.
Num(n) == [k |-> "num", n |-> n, s |-> <<>>]
Str(s) == [k |-> "str", n |-> 0, s |-> s]
Chr(c) == [k |-> "chr", n |-> c, s |-> <<>>]
NaN == [k |-> "nan", n |-> 0, s |-> <<>>]
Undefined == [k |-> "undef", n |-> 0, s |-> <<>>]

IsNum(v) == v.k = "num"

\* !v
Falsy(v) ==
    \/ v.k \in {"undef", "nan"}
    \/ v.k = "num" /\ v.n = 0
    \/ v.k = "str" /\ v.s = <<>>

\* ToInt32(v): what a bitwise operator sees of its operand
ToInt32(v) == IF v.k = "num" THEN v.n ELSE 0

\* a + b and a - b on values that are numbers, NaN or undefined
JsAdd(a, b) == IF IsNum(a) /\ IsNum(b) THEN Num(a.n + b.n) ELSE NaN
JsSub(a, b) == IF IsNum(a) /\ IsNum(b) THEN Num(a.n - b.n) ELSE NaN

\* a === 0 and a >= 0
StrictEqZero(a) == IsNum(a) /\ a.n = 0
\* a > 0, the README's "if the Accumulator is positive"
GeZero_Positive(a) == IsNum(a) /\ a.n > 0
GeZero(a) == IsNum(a) /\ a.n >= 0

\* a || 0
OrZero(a) == IF Falsy(a) THEN Num(0) ELSE a

\* x & y and x | y on two's complement integers (\div and % round down)
RECURSIVE BitAnd(_, _)
BitAnd(x, y) ==
    IF x = 0 \/ y = 0 THEN 0
    ELSE IF x = -1 THEN y
    ELSE IF y = -1 THEN x
    ELSE (x % 2) * (y % 2) + 2 * BitAnd(x \div 2, y \div 2)

RECURSIVE BitOr(_, _)
BitOr(x, y) ==
    IF x = 0 THEN y
    ELSE IF y = 0 THEN x
    ELSE IF x = -1 \/ y = -1 THEN -1
    ELSE (IF x % 2 = 1 \/ y % 2 = 1 THEN 1 ELSE 0) + 2 * BitOr(x \div 2, y \div 2)

\* x << 8 and x >> 8
Shl8(x) == x * 256
Shr8(x) == x \div 256

\* String.fromCharCode(v): the UTF-16 code unit ToUint16(v)
CodeUnits == 65536
FromCharCode(v) == Chr(IF IsNum(v) THEN v.n % CodeUnits ELSE 0)

\* a[i] and a[i] = v on a JavaScript array held as a sequence (index 0 is a[1])
ArrGet(a, i) == IF i >= 0 /\ i < Len(a) THEN a[i + 1] ELSE Undefined
ArrSet(a, i, v) ==
    [j \in 1..(IF i + 1 > Len(a) THEN i + 1 ELSE Len(a)) |->
        IF j = i + 1 THEN v ELSE IF j <= Len(a) THEN a[j] ELSE Undefined]

\* new Array(n).fill(0)
ZeroArray(n) == [j \in 1..n |-> Num(0)]

-----------------------------------------------------------------------------
(* Opcodes.ts *)

HLT == 0
ADD == 1
SUB == 2
STA == 3
ERR == 4
LDA == 5
BRA == 6
BRZ == 7
BRP == 8
INP == 9
DAT == 10

INPUT == 1
OUTPUT == 2
CHAR == 22

-----------------------------------------------------------------------------
(* Interpreter.ts: the instruction codec *)

OpcodeMask == 65280
OperandMask == 255

\* An Instruction: opcode and operand are JavaScript values; an instruction
\* without operand has operand Undefined.
Instr(opcode, operand) == [opcode |-> Num(opcode), operand |-> operand]

\* private encode(instruction): (opcode << 8) | (operand || 0)
encode(instruction) ==
    BitOr(Shl8(ToInt32(instruction.opcode)), ToInt32(OrZero(instruction.operand)))

\* A decode that, like encode, takes operand 0 for no operand
decode_ZeroIsAbsent(rawInstruction) ==
    [opcode |-> Shr8(BitAnd(ToInt32(rawInstruction), OpcodeMask)),
     operand |-> IF BitAnd(ToInt32(rawInstruction), OperandMask) = 0
                 THEN Undefined
                 ELSE Num(BitAnd(ToInt32(rawInstruction), OperandMask))]

\* A decode that shifts without masking
decode_Unmasked(rawInstruction) ==
    [opcode |-> Shr8(ToInt32(rawInstruction)),
     operand |-> Num(BitAnd(ToInt32(rawInstruction), OperandMask))]

\* private decode(rawInstruction)
decode(rawInstruction) ==
    [opcode |-> Shr8(BitAnd(ToInt32(rawInstruction), OpcodeMask)),
     operand |-> Num(BitAnd(ToInt32(rawInstruction), OperandMask))]

-----------------------------------------------------------------------------
(* Interpreter.ts: the engine, as functions of its fields *)

\* The fields of an Interpreter
Engine(acc, pc, ir, ar, mem) ==
    [accumulator |-> acc, programCounter |-> pc, instructionRegister |-> ir,
     addressRegister |-> ar, memory |-> mem]

\* The field initialisers and the constructor
Constructed(opts) == Engine(Num(0), 0, 0, 0, ZeroArray(opts.memorySize))

\* A forEach that encodes data declarations like every other instruction
RECURSIVE LoadProgram_EncodesData(_, _, _)
LoadProgram_EncodesData(mem, program, index) ==
    IF index >= Len(program) THEN mem
    ELSE LoadProgram_EncodesData(ArrSet(mem, index, Num(encode(program[index + 1]))),
                                 program, index + 1)

\* The forEach of initialise(), from instruction `index` on
RECURSIVE LoadProgram(_, _, _)
LoadProgram(mem, program, index) ==
    IF index >= Len(program) THEN mem
    ELSE LET instruction == program[index + 1]
             cell == IF instruction.opcode = Num(DAT)
                     THEN instruction.operand
                     ELSE Num(encode(instruction))
         IN LoadProgram(ArrSet(mem, index, cell), program, index + 1)

\* initialise(): the memory it leaves
Initialised(mem, opts) ==
    LET loaded == LoadProgram(mem, opts.program, 0)
    IN IF opts.appendHalt
       THEN ArrSet(loaded, Len(opts.program), Num(encode([opcode |-> Num(HLT), operand |-> Undefined])))
       ELSE loaded

\* A host callback invocation
Call(ev, val) == [ev |-> ev, val |-> val]

\* The outcome of step(): the engine afterwards, what step() returned
\* ("true", "false", or "throw" for a raised Error) and the callbacks invoked
Outcome(e, ret, evs) == [engine |-> e, ret |-> ret, events |-> evs]

\* case Opcode.HLT
ExecuteHLT(e) == Outcome(e, "false", <<>>)

\* case Opcode.ADD, case Opcode.SUB
ExecuteADD(e) ==
    Outcome([e EXCEPT !.accumulator = JsAdd(e.accumulator, ArrGet(e.memory, e.addressRegister))],
            "true", <<>>)

ExecuteSUB(e) ==
    Outcome([e EXCEPT !.accumulator = JsSub(e.accumulator, ArrGet(e.memory, e.addressRegister))],
            "true", <<>>)

\* case Opcode.STA
ExecuteSTA(e) ==
    Outcome([e EXCEPT !.memory = ArrSet(e.memory, e.addressRegister, e.accumulator)],
            "true", <<>>)

\* case Opcode.ERR
ExecuteERR(e) == Outcome(e, "throw", <<>>)

\* case Opcode.LDA
ExecuteLDA(e) ==
    Outcome([e EXCEPT !.accumulator = ArrGet(e.memory, e.addressRegister)], "true", <<>>)

\* case Opcode.BRA, case Opcode.BRZ, case Opcode.BRP
ExecuteBRA(e) ==
    Outcome([e EXCEPT !.programCounter = e.addressRegister], "true", <<>>)

ExecuteBRZ(e) ==
    IF StrictEqZero(e.accumulator)
    THEN Outcome([e EXCEPT !.programCounter = e.addressRegister], "true", <<>>)
    ELSE Outcome(e, "true", <<>>)

ExecuteBRP(e) ==
    IF GeZero(e.accumulator)
    THEN Outcome([e EXCEPT !.programCounter = e.addressRegister], "true", <<>>)
    ELSE Outcome(e, "true", <<>>)

\* An inner switch whose CHAR case gives onOutput the number
ExecuteINP_CharAsNumber(e, input) ==
    CASE e.addressRegister = INPUT ->
            Outcome([e EXCEPT !.accumulator = input], "true", <<Call("onInput", input)>>)
      [] e.addressRegister \in {OUTPUT, CHAR} ->
            Outcome(e, "true", <<Call("onOutput", e.accumulator)>>)
      [] OTHER -> Outcome(e, "true", <<>>)

\* An inner switch with a default case that throws
ExecuteINP_UnknownThrows(e, input) ==
    CASE e.addressRegister = INPUT ->
            Outcome([e EXCEPT !.accumulator = input], "true", <<Call("onInput", input)>>)
      [] e.addressRegister = OUTPUT ->
            Outcome(e, "true", <<Call("onOutput", e.accumulator)>>)
      [] e.addressRegister = CHAR ->
            Outcome(e, "true", <<Call("onOutput", FromCharCode(e.accumulator))>>)
      [] OTHER -> Outcome(e, "throw", <<>>)

\* case Opcode.INP: the inner switch on the address register
ExecuteINP(e, input) ==
    CASE e.addressRegister = INPUT ->
            Outcome([e EXCEPT !.accumulator = input], "true", <<Call("onInput", input)>>)
      [] e.addressRegister = OUTPUT ->
            Outcome(e, "true", <<Call("onOutput", e.accumulator)>>)
      [] e.addressRegister = CHAR ->
            Outcome(e, "true", <<Call("onOutput", FromCharCode(e.accumulator))>>)
      [] OTHER -> Outcome(e, "true", <<>>)

\* A DAT that falls through to the default case
ExecuteDAT_FallsThrough(e) == Outcome(e, "throw", <<>>)

\* case Opcode.DAT
ExecuteDAT(e) == Outcome(e, "true", <<>>)

\* default
ExecuteDefault(e) == Outcome(e, "throw", <<>>)

\* The switch on the instruction register
Execute(e, input) ==
    CASE e.instructionRegister = HLT -> ExecuteHLT(e)
      [] e.instructionRegister = ADD -> ExecuteADD(e)
      [] e.instructionRegister = SUB -> ExecuteSUB(e)
      [] e.instructionRegister = STA -> ExecuteSTA(e)
      [] e.instructionRegister = ERR -> ExecuteERR(e)
      [] e.instructionRegister = LDA -> ExecuteLDA(e)
      [] e.instructionRegister = BRA -> ExecuteBRA(e)
      [] e.instructionRegister = BRZ -> ExecuteBRZ(e)
      [] e.instructionRegister = BRP -> ExecuteBRP(e)
      [] e.instructionRegister = INP -> ExecuteINP(e, input)
      [] e.instructionRegister = DAT -> ExecuteDAT(e)
      [] OTHER -> ExecuteDefault(e)

\* Fetch, increment and decode
Fetch(e) == ArrGet(e.memory, e.programCounter)

\* A decode step without the increment of the program counter
Decoded_NoIncrement(e, rawInstruction) ==
    LET instruction == decode(rawInstruction)
    IN [e EXCEPT !.instructionRegister = instruction.opcode,
                 !.addressRegister = IF instruction.operand # Undefined
                                     THEN instruction.operand.n
                                     ELSE e.addressRegister]

Decoded(e, rawInstruction) ==
    LET instruction == decode(rawInstruction)
    IN [e EXCEPT !.programCounter = e.programCounter + 1,
                 !.instructionRegister = instruction.opcode,
                 !.addressRegister = IF instruction.operand # Undefined
                                     THEN instruction.operand.n
                                     ELSE e.addressRegister]

\* step(), given the value onInput() returns when it is called (the decoded
\* engine is bound once, as the registers are assigned once at lines 207-215)
StepOutcome(e, input) ==
    LET rawInstruction == Fetch(e)
    IN IF Falsy(rawInstruction)
       THEN Outcome(e, "false", <<>>)
       ELSE CHOOSE out \in {Execute(decoded, input) : decoded \in {Decoded(e, rawInstruction)}} : TRUE

\* A wipe() that keeps the memory
Wiped_KeepsMemory(opts) == Engine(Num(0), 0, 0, 0, memory)

\* wipe()
Wiped(opts) == Engine(Num(0), 0, 0, 0, ZeroArray(opts.memorySize))

\* A run() that reaches onFinished() in a finally block
AfterStep_Finally(ret) ==
    CASE ret = "true" -> "loop"
      [] OTHER -> "finishing"

\* Where run() goes after a step(): round the loop again on true, on to
\* onFinished() on false, and out of run() with the Error when step() threw
AfterStep(ret) ==
    CASE ret = "true" -> "loop"
      [] ret = "false" -> "finishing"
      [] OTHER -> "faulted"

\* onDump, when the host gave one, after a step() that returned true
Dump(opts, ret) ==
    IF ret = "true" /\ opts.onDump THEN <<Call("onDump", Undefined)>> ELSE <<>>

\* run() as a function: the loop from engine e on, with `ins` the values the
\* successive onInput() calls return and `evs` the callbacks invoked so far.
\* The result is the engine, the callbacks and where run() ended; a run that
\* is still in its loop after `fuel` steps, or asks for more input than `ins`
\* holds, is reported as still being in the loop.
RECURSIVE RunLoopFrom(_, _, _, _, _)
RunLoopFrom(e, opts, ins, evs, fuel) ==
    LET out == StepOutcome(e, IF ins = <<>> THEN Undefined ELSE Head(ins))
        asked == out.events # <<>> /\ out.events[1].ev = "onInput"
        sofar == evs \o out.events \o Dump(opts, out.ret)
    IN IF fuel = 0 \/ (asked /\ ins = <<>>)
       THEN [engine |-> e, calls |-> evs, runState |-> "loop"]
       ELSE CASE AfterStep(out.ret) = "loop" ->
                    RunLoopFrom(out.engine, opts, IF asked THEN Tail(ins) ELSE ins,
                                sofar, fuel - 1)
              [] AfterStep(out.ret) = "finishing" ->
                    [engine |-> out.engine,
                     calls |-> Append(sofar, Call("onFinished", Undefined)),
                     runState |-> "finished"]
              [] OTHER ->
                    [engine |-> out.engine, calls |-> sofar, runState |-> "faulted"]

RunOutcome(e, opts, ins, fuel) ==
    RunLoopFrom([e EXCEPT !.memory = Initialised(e.memory, opts)], opts, ins, <<>>, fuel)

-----------------------------------------------------------------------------
(* JavaScript strings, as the parser uses them *)

LowerCase == <<"a", "b", "c", "d", "e", "f", "g", "h", "i", "j", "k", "l", "m",
               "n", "o", "p", "q", "r", "s", "t", "u", "v", "w", "x", "y", "z">>
UpperCase == <<"A", "B", "C", "D", "E", "F", "G", "H", "I", "J", "K", "L", "M",
               "N", "O", "P", "Q", "R", "S", "T", "U", "V", "W", "X", "Y", "Z">>
DecimalDigits == <<"0", "1", "2", "3", "4", "5", "6", "7", "8", "9">>

Range(f) == {f[i] : i \in DOMAIN f}
IndexOf(f, c) == CHOOSE i \in DOMAIN f : f[i] = c

\* str.toUpperCase() and str.toLowerCase()
ToUpperCase(str) ==
    [i \in 1..Len(str) |->
        IF str[i] \in Range(LowerCase) THEN UpperCase[IndexOf(LowerCase, str[i])] ELSE str[i]]
ToLowerCase(str) ==
    [i \in 1..Len(str) |->
        IF str[i] \in Range(UpperCase) THEN LowerCase[IndexOf(UpperCase, str[i])] ELSE str[i]]

\* The characters \s matches and trim() removes
WhiteSpace == {" ", "\t", "\r", "\n", "\f"}

\* str.trim()
RECURSIVE TrimStart(_)
TrimStart(str) ==
    IF str # <<>> /\ Head(str) \in WhiteSpace THEN TrimStart(Tail(str)) ELSE str
RECURSIVE TrimEnd(_)
TrimEnd(str) ==
    IF str # <<>> /\ str[Len(str)] \in WhiteSpace
    THEN TrimEnd(SubSeq(str, 1, Len(str) - 1)) ELSE str
Trim(str) == TrimEnd(TrimStart(str))

\* str.split(sep) for a string sep: the pieces between the occurrences of sep,
\* found from the left without overlap; the characters of str when sep is ""
MatchesAt(str, sep, pos) ==
    /\ pos + Len(sep) - 1 <= Len(str)
    /\ \A j \in 1..Len(sep) : str[pos + j - 1] = sep[j]

RECURSIVE SplitFrom(_, _, _, _)
SplitFrom(str, sep, start, pos) ==
    IF pos + Len(sep) - 1 > Len(str) THEN <<SubSeq(str, start, Len(str))>>
    ELSE IF MatchesAt(str, sep, pos)
         THEN <<SubSeq(str, start, pos - 1)>>
              \o SplitFrom(str, sep, pos + Len(sep), pos + Len(sep))
         ELSE SplitFrom(str, sep, start, pos + 1)

Split(str, sep) ==
    IF sep = <<>> THEN [i \in 1..Len(str) |-> <<str[i]>>]
    ELSE SplitFrom(str, sep, 1, 1)

\* str.split(/\s+/) of a trimmed, non-empty str: its runs of other characters
RECURSIVE SplitWhiteSpace(_, _)
SplitWhiteSpace(str, token) ==
    IF str = <<>> THEN <<token>>
    ELSE IF Head(str) \in WhiteSpace
         THEN <<token>> \o SplitWhiteSpace(TrimStart(str), <<>>)
         ELSE SplitWhiteSpace(Tail(str), Append(token, Head(str)))

\* parseInt(str) of a string without leading white space: an optional sign,
\* then the longest run of decimal digits (of hexadecimal digits after 0x),
\* NaN when there is none
HexLower == <<"a", "b", "c", "d", "e", "f">>
HexUpper == <<"A", "B", "C", "D", "E", "F">>

DigitValue(c, radix) ==
    IF c \in Range(DecimalDigits) THEN IndexOf(DecimalDigits, c) - 1
    ELSE IF radix = 16 /\ c \in Range(HexLower) THEN 9 + IndexOf(HexLower, c)
    ELSE IF radix = 16 /\ c \in Range(HexUpper) THEN 9 + IndexOf(HexUpper, c)
    ELSE -1

RECURSIVE ParseDigits(_, _, _, _)
ParseDigits(str, radix, value, seen) ==
    IF str = <<>> \/ DigitValue(Head(str), radix) < 0
    THEN IF seen THEN Num(value) ELSE NaN
    ELSE ParseDigits(Tail(str), radix, value * radix + DigitValue(Head(str), radix), TRUE)

ParseUnsigned(str) ==
    IF Len(str) >= 2 /\ str[1] = "0" /\ str[2] \in {"x", "X"}
    THEN ParseDigits(SubSeq(str, 3, Len(str)), 16, 0, FALSE)
    ELSE ParseDigits(str, 10, 0, FALSE)

ParseInt(str) ==
    IF str # <<>> /\ Head(str) = "-"
    THEN LET v == ParseUnsigned(Tail(str)) IN IF IsNum(v) THEN Num(0 - v.n) ELSE NaN
    ELSE IF str # <<>> /\ Head(str) = "+" THEN ParseUnsigned(Tail(str))
    ELSE ParseUnsigned(str)

-----------------------------------------------------------------------------
(* Parser.ts *)

\* The Opcode enum as an object: the member names map to their numbers and, as
\* TypeScript compiles a numeric enum, each number maps back to the name that
\* was assigned to it last.
OpcodeObject ==
    << <<<<"H", "L", "T">>, Num(HLT)>>, <<<<"A", "D", "D">>, Num(ADD)>>,
       <<<<"S", "U", "B">>, Num(SUB)>>, <<<<"S", "T", "A">>, Num(STA)>>,
       <<<<"E", "R", "R">>, Num(ERR)>>, <<<<"L", "D", "A">>, Num(LDA)>>,
       <<<<"B", "R", "A">>, Num(BRA)>>, <<<<"B", "R", "Z">>, Num(BRZ)>>,
       <<<<"B", "R", "P">>, Num(BRP)>>, <<<<"I", "N", "P">>, Num(INP)>>,
       <<<<"O", "U", "T">>, Num(INP)>>, <<<<"O", "T", "C">>, Num(INP)>>,
       <<<<"D", "A", "T">>, Num(DAT)>>,
       <<<<"0">>, Str(<<"H", "L", "T">>)>>, <<<<"1">>, Str(<<"A", "D", "D">>)>>,
       <<<<"2">>, Str(<<"S", "U", "B">>)>>, <<<<"3">>, Str(<<"S", "T", "A">>)>>,
       <<<<"4">>, Str(<<"E", "R", "R">>)>>, <<<<"5">>, Str(<<"L", "D", "A">>)>>,
       <<<<"6">>, Str(<<"B", "R", "A">>)>>, <<<<"7">>, Str(<<"B", "R", "Z">>)>>,
       <<<<"8">>, Str(<<"B", "R", "P">>)>>, <<<<"9">>, Str(<<"O", "T", "C">>)>>,
       <<<<"1", "0">>, Str(<<"D", "A", "T">>)>> >>

\* findOpcode(opcodeName): Opcode[opcodeName.toUpperCase()]
findOpcode(opcodeName) ==
    LET key == ToUpperCase(opcodeName)
        hits == {i \in DOMAIN OpcodeObject : OpcodeObject[i][1] = key}
    IN IF hits = {} THEN Undefined ELSE OpcodeObject[CHOOSE i \in hits : TRUE][2]

\* testLabel(labelName): /^[a-zA-Z_][a-zA-Z0-9_]*$/
testLabel(labelName) ==
    LET letters == Range(LowerCase) \cup Range(UpperCase) \cup {"_"}
    IN /\ labelName # <<>>
       /\ labelName[1] \in letters
       /\ \A i \in 2..Len(labelName) : labelName[i] \in letters \cup Range(DecimalDigits)

\* The label table, a Map<string, number>
NoLabels == [name \in {} |-> 0]
HasLabel(labels, name) == name \in DOMAIN labels
SetLabel(labels, name, index) ==
    [n \in DOMAIN labels \cup {name} |-> IF n = name THEN index ELSE labels[n]]

\* A handleLabel that counts the instructions from 1
handleLabel_FromOne(labels, label, length) ==
    IF testLabel(label) /\ ~HasLabel(labels, label)
    THEN SetLabel(labels, label, length + 1)
    ELSE labels

\* A handleLabel that lets a later definition replace an earlier one
handleLabel_LastWins(labels, label, length) ==
    IF testLabel(label) THEN SetLabel(labels, label, length) ELSE labels

\* handleLabel(label): the label table it leaves, `length` being instructions.length
handleLabel(labels, label, length) ==
    IF testLabel(label) /\ ~HasLabel(labels, label)
    THEN SetLabel(labels, label, length)
    ELSE labels

\* handleOperand(operand)
handleOperand(operand) ==
    IF ParseInt(operand) # NaN THEN ParseInt(operand)
    ELSE IF testLabel(operand) THEN Str(operand)
    ELSE Undefined

\* Prepare the program for parsing: the lines, as JavaScript values
RECURSIVE SplitLines(_, _, _)
SplitLines(lines, sequence, i) ==
    IF i > Len(lines) THEN lines
    ELSE LET content == Split(lines[i], sequence)
         IN SplitLines(IF Len(content) > 1
                       THEN SubSeq(lines, 1, i - 1) \o content \o SubSeq(lines, i + 1, Len(lines))
                       ELSE lines,
                       sequence, i + 1)

\* A comment strip that keeps what follows the last comment sequence
StripComment_KeepsTail(line, sequence) ==
    LET parts == Split(line, sequence)
    IN IF parts = <<>> THEN Undefined ELSE Str(parts[Len(parts)])

StripComment(line, sequence) ==
    LET parts == Split(line, sequence)
    IN IF parts = <<>> THEN Undefined ELSE Str(parts[1])

PreparedLines(opts) ==
    LET physical == Split(opts.program, <<"\n">>)
        split == IF opts.splitLines.enabled
                 THEN SplitLines(physical, opts.splitLines.sequence, 1)
                 ELSE physical
    IN [i \in 1..Len(split) |->
          IF opts.comments.enabled
          THEN StripComment(split[i], opts.comments.sequence)
          ELSE Str(split[i])]

\* What the switch on tokens.length leaves: the opcode, the operand, rawOpcode,
\* errored and the label table
Classified(opcode, operand, rawOpcode, errored, labels) ==
    [opcode |-> opcode, operand |-> operand, rawOpcode |-> rawOpcode,
     errored |-> errored, labels |-> labels]

\* case 1
OneToken(tokens, labels) ==
    Classified(findOpcode(tokens[1]), Undefined, Str(tokens[1]),
               findOpcode(tokens[1]) = Undefined, labels)

\* case 2
TwoTokens(tokens, labels, length) ==
    LET first == findOpcode(tokens[1])
        twoTokenState == IF first = Undefined THEN "label" ELSE "operand"
        opcode == IF first = Undefined THEN findOpcode(tokens[2]) ELSE first
        rawOpcode == IF first = Undefined THEN Str(tokens[2]) ELSE Str(tokens[1])
    IN IF opcode = Undefined
       THEN Classified(opcode, Undefined, rawOpcode, TRUE, labels)
       ELSE IF twoTokenState = "operand"
            THEN Classified(opcode, handleOperand(tokens[2]), rawOpcode,
                            handleOperand(tokens[2]) = Undefined, labels)
            ELSE Classified(opcode, Undefined, rawOpcode, FALSE,
                            handleLabel(labels, tokens[1], length))

\* case 3
ThreeTokens(tokens, labels, length) ==
    LET opcode == findOpcode(tokens[2])
        operand == handleOperand(tokens[3])
    IN IF opcode = Undefined
       THEN Classified(Num(ERR), Undefined, Undefined, FALSE, labels)
       ELSE IF operand = Undefined
            THEN Classified(opcode, operand, Str(tokens[3]), TRUE, labels)
            ELSE Classified(opcode, operand, Str(tokens[3]), FALSE,
                            handleLabel(labels, tokens[1], length))

\* switch (tokens.length)
Classify(tokens, labels, length) ==
    CASE Len(tokens) = 1 -> OneToken(tokens, labels)
      [] Len(tokens) = 2 -> TwoTokens(tokens, labels, length)
      [] Len(tokens) = 3 -> ThreeTokens(tokens, labels, length)
      [] OTHER -> Classified(Undefined, Undefined, Undefined, TRUE, labels)

\* Handle the opcode: an ERR opcode is an error
OpcodeErrored(c) == c.errored \/ c.opcode = Num(ERR)

\* Handle the operand: an opcode that needs one and has none is an error, and
\* the I/O opcode gets the code of the mnemonic held in rawOpcode
NeedsOperand == {Num(ADD), Num(SUB), Num(STA), Num(LDA), Num(BRA), Num(BRZ), Num(BRP)}

\* Operand defaults that compare rawOpcode as it was written
DefaultOperand_CaseSensitive(c) ==
    IF c.operand = Undefined /\ c.opcode = Num(INP) /\ c.rawOpcode # Undefined
    THEN CASE c.rawOpcode.s = <<"i", "n", "p">> -> Num(INPUT)
           [] c.rawOpcode.s = <<"o", "u", "t">> -> Num(OUTPUT)
           [] c.rawOpcode.s = <<"o", "t", "c">> -> Num(CHAR)
           [] OTHER -> c.operand
    ELSE c.operand

DefaultOperand(c) ==
    IF c.operand = Undefined /\ c.opcode = Num(INP) /\ c.rawOpcode # Undefined
    THEN CASE ToLowerCase(c.rawOpcode.s) = <<"i", "n", "p">> -> Num(INPUT)
           [] ToLowerCase(c.rawOpcode.s) = <<"o", "u", "t">> -> Num(OUTPUT)
           [] ToLowerCase(c.rawOpcode.s) = <<"o", "t", "c">> -> Num(CHAR)
           [] OTHER -> c.operand
    ELSE c.operand

OperandErrored(c) ==
    OpcodeErrored(c) \/ (c.operand = Undefined /\ c.opcode \in NeedsOperand)

\* The parser while it tokenises: the intermediary instructions, the label
\* table, errored, and whether parse() has thrown
Parsing(instructions, labels, errored, thrown) ==
    [instructions |-> instructions, labels |-> labels, errored |-> errored,
     thrown |-> thrown]

\* One turn of the for loop over the lines
ParseLine(ps, lineValue) ==
    IF lineValue = Undefined
    THEN Parsing(ps.instructions, ps.labels, ps.errored, TRUE)
    ELSE LET line == Trim(lineValue.s)
             c == Classify(SplitWhiteSpace(line, <<>>), ps.labels, Len(ps.instructions))
         IN IF line = <<>> THEN ps
            ELSE IF OperandErrored(c)
                 THEN Parsing(Append(ps.instructions,
                                     [opcode |-> Num(ERR), operand |-> Undefined]),
                              c.labels, TRUE, FALSE)
                 ELSE Parsing(Append(ps.instructions,
                                     [opcode |-> c.opcode, operand |-> DefaultOperand(c)]),
                              c.labels, FALSE, FALSE)

\* A loop that goes on to the next line after an error
RECURSIVE Tokenise_Continues(_, _, _)
Tokenise_Continues(ps, lines, i) ==
    IF i > Len(lines) \/ ps.thrown THEN ps
    ELSE Tokenise_Continues(ParseLine(ps, lines[i]), lines, i + 1)

\* for (let i = 0; i < lines.length && !errored; i++)
RECURSIVE Tokenise(_, _, _)
Tokenise(ps, lines, i) ==
    IF i > Len(lines) \/ ps.errored \/ ps.thrown THEN ps
    ELSE Tokenise(ParseLine(ps, lines[i]), lines, i + 1)

\* A second pass that only drops the operand of an unresolved reference
Resolved_KeepsOpcode(instruction, labels) ==
    IF instruction.operand.k = "str"
    THEN IF HasLabel(labels, instruction.operand.s)
         THEN [opcode |-> instruction.opcode, operand |-> Num(labels[instruction.operand.s])]
         ELSE [opcode |-> instruction.opcode, operand |-> Undefined]
    ELSE instruction

\* A second pass that takes the position after the labelled one
Resolved_NextPosition(instruction, labels) ==
    IF instruction.operand.k = "str"
    THEN IF HasLabel(labels, instruction.operand.s)
         THEN [opcode |-> instruction.opcode,
               operand |-> Num(labels[instruction.operand.s] + 1)]
         ELSE [opcode |-> Num(ERR), operand |-> Undefined]
    ELSE instruction

\* Build instructions from the intermediary instructions
Resolved(instruction, labels) ==
    IF instruction.operand.k = "str"
    THEN IF HasLabel(labels, instruction.operand.s)
         THEN [opcode |-> instruction.opcode, operand |-> Num(labels[instruction.operand.s])]
         ELSE [opcode |-> Num(ERR), operand |-> Undefined]
    ELSE instruction

\* parse(): the ParserResult, and whether parse() threw instead of returning
parse(opts) ==
    LET ps == Tokenise(Parsing(<<>>, NoLabels, FALSE, FALSE), PreparedLines(opts), 1)
    IN [instructions |-> [i \in 1..Len(ps.instructions) |->
                             Resolved(ps.instructions[i], ps.labels)],
        labels |-> ps.labels,
        thrown |-> ps.thrown]

\* The options of a Parser
ParserOptions(program, commentsEnabled, commentSequence, splitEnabled, splitSequence) ==
    [program |-> program,
     comments |-> [enabled |-> commentsEnabled, sequence |-> commentSequence],
     splitLines |-> [enabled |-> splitEnabled, sequence |-> splitSequence]]

-----------------------------------------------------------------------------
(* Bounds of the model *)

\* onInput() returns an integer in -MaxInput..MaxInput
MaxInput == 1
\* a step that would take the accumulator outside -MaxAbs..MaxAbs is not taken
MaxAbs == 6000
\* a run() is followed for at most MaxCalls host callbacks
MaxCalls == 6
\* the steps after which run() as a function gives up
RunFuel == 40

InputValues == {Num(n) : n \in -MaxInput..MaxInput}

InBounds(e) ==
    IsNum(e.accumulator) => e.accumulator.n \in -MaxAbs..MaxAbs

-----------------------------------------------------------------------------
(* The engines that are checked *)

\* Instructions as Parser.parse() returns them, an I/O instruction without
\* operand, and data cells that decode to an unrecognised opcode, to a halt
\* with an operand and to a negative number
Alphabet ==
    { Instr(HLT, Undefined), Instr(ERR, Undefined),
      Instr(ADD, Num(1)), Instr(SUB, Num(1)), Instr(SUB, Num(5)),
      Instr(STA, Num(0)), Instr(STA, Num(1)), Instr(STA, Num(2)),
      Instr(LDA, Num(1)), Instr(LDA, Num(5)),
      Instr(BRA, Num(0)), Instr(BRZ, Num(0)), Instr(BRP, Num(0)),
      Instr(INP, Num(INPUT)), Instr(INP, Num(OUTPUT)), Instr(INP, Num(CHAR)),
      Instr(INP, Num(3)), Instr(INP, Num(512)), Instr(INP, Undefined),
      Instr(DAT, Undefined), Instr(DAT, Num(2)), Instr(DAT, Num(-1)),
      Instr(DAT, Num(2570)), Instr(DAT, Num(65536 + 1537)) }

Programs ==
    {<<a>> : a \in Alphabet} \cup {<<a, b>> : a, b \in Alphabet}

MemorySizes == {2}

AllOptions ==
    [program : Programs, memorySize : MemorySizes,
     appendHalt : BOOLEAN, onDump : BOOLEAN, onInput : {InputValues}]

-----------------------------------------------------------------------------
(* The state machine *)

Current ==
    Engine(accumulator, programCounter, instructionRegister, addressRegister, memory)

Becomes(e) ==
    /\ accumulator' = e.accumulator
    /\ programCounter' = e.programCounter
    /\ instructionRegister' = e.instructionRegister
    /\ addressRegister' = e.addressRegister
    /\ memory' = e.memory

Registers == <<accumulator, programCounter, instructionRegister, addressRegister>>

\* The latest public call: its name, what step() fetched and returned, and the
\* program counter and accumulator it started from
Last(op, ret, raw, pc, acc) == [op |-> op, ret |-> ret, raw |-> raw, pc |-> pc, acc |-> acc]
NoCall == Last("none", "", Undefined, 0, Undefined)

\* The call before a run(): its name, and for a wipe() whether the engine it
\* wiped had executed instructions
Origin(call) == [op |-> call.op, used |-> call.op = "wipe" /\ call.pc > 0]

\* The caller is outside run()
Idle == runState \in {"idle", "finished", "faulted"}

\* The parser of the host, and the result of its parse(): not called yet, or
\* called, with what it returned
ParserState == <<parserOptions, result>>
NoProgram == ParserOptions(<<>>, FALSE, <<>>, FALSE, <<>>)
Unparsed == [called |-> FALSE]
Parsed(value) == [called |-> TRUE, value |-> value]

InitWith(opts) ==
    /\ options = opts
    /\ accumulator = Constructed(opts).accumulator
    /\ programCounter = Constructed(opts).programCounter
    /\ instructionRegister = Constructed(opts).instructionRegister
    /\ addressRegister = Constructed(opts).addressRegister
    /\ memory = Constructed(opts).memory
    /\ runState = "idle"
    /\ calls = <<>>
    /\ last = NoCall
    /\ runOrigin = Origin(NoCall)
    /\ parserOptions = NoProgram
    /\ result = Unparsed

Init == \E opts \in AllOptions : InitWith(opts)

\* initialise(), called by the host
initialise ==
    /\ Idle
    /\ memory' = Initialised(memory, options)
    /\ runState' = "idle"
    /\ calls' = <<>>
    /\ last' = Last("initialise", "", Undefined, programCounter, accumulator)
    /\ runOrigin' = Origin(NoCall)
    /\ UNCHANGED <<options, Registers, ParserState>>

\* step(), called by the host
step ==
    /\ Idle
    /\ \E input \in options.onInput :
         LET out == StepOutcome(Current, input)
         IN /\ InBounds(out.engine)
            /\ Becomes(out.engine)
            /\ calls' = out.events
            /\ last' = Last("step", out.ret, Fetch(Current), programCounter, accumulator)
    /\ runState' = "idle"
    /\ runOrigin' = Origin(NoCall)
    /\ UNCHANGED <<options, ParserState>>

\* wipe(), called by the host
wipe ==
    /\ Idle
    /\ Becomes(Wiped(options))
    /\ runState' = "idle"
    /\ calls' = <<>>
    /\ last' = Last("wipe", "", Undefined, programCounter, accumulator)
    /\ runOrigin' = Origin(NoCall)
    /\ UNCHANGED <<options, ParserState>>

\* run(), up to the loop: initialise()
run ==
    /\ Idle
    /\ memory' = Initialised(memory, options)
    /\ runState' = "loop"
    /\ calls' = <<>>
    /\ last' = Last("run", "", Undefined, programCounter, accumulator)
    /\ runOrigin' = Origin(last)
    /\ UNCHANGED <<options, Registers, ParserState>>

\* run(), one turn of while (this.step()) { onDump }
runLoop ==
    /\ runState = "loop"
    /\ Len(calls) < MaxCalls
    /\ \E input \in options.onInput :
         \E out \in {StepOutcome(Current, input)} :
            /\ InBounds(out.engine)
            /\ Becomes(out.engine)
            /\ calls' = calls \o out.events \o Dump(options, out.ret)
            /\ last' = Last("step", out.ret, Fetch(Current), programCounter, accumulator)
            /\ runState' = AfterStep(out.ret)
    /\ UNCHANGED <<options, runOrigin, ParserState>>

\* run(), after the loop: onFinished()
runFinished ==
    /\ runState = "finishing"
    /\ calls' = Append(calls, Call("onFinished", Undefined))
    /\ runState' = "finished"
    /\ UNCHANGED <<options, Registers, memory, last, runOrigin, ParserState>>

Next == initialise \/ step \/ wipe \/ run \/ runLoop \/ runFinished

Spec == Init /\ [][Next]_vars

-----------------------------------------------------------------------------
(* The example of the README and of example.ts: the program is translated by
   the parser and run once on a new engine of 100 cells *)

\* onInput() of the example returns an integer in -MaxExampleInput..MaxExampleInput
MaxExampleInput == 12

\* "inp;out;add two;out;two dat 2"
ExampleProgram ==
    <<"i", "n", "p", ";", "o", "u", "t", ";", "a", "d", "d", " ", "t", "w", "o", ";",
      "o", "u", "t", ";", "t", "w", "o", " ", "d", "a", "t", " ", "2">>

ExampleMemorySize == 100

ExampleOptions ==
    { [program |-> parse(ParserOptions(ExampleProgram, c, <<"/", "/">>, TRUE, <<";">>)).instructions,
       memorySize |-> ExampleMemorySize,
       appendHalt |-> h,
       onDump |-> FALSE,
       onInput |-> {Num(n) : n \in -MaxExampleInput..MaxExampleInput}] :
      c \in BOOLEAN, h \in BOOLEAN }

ExampleInit == \E opts \in ExampleOptions : InitWith(opts)

ExampleNext == run \/ runLoop \/ runFinished

SpecExample == ExampleInit /\ [][ExampleNext]_vars

-----------------------------------------------------------------------------
(* The codec: engines of one instruction, of every opcode and of operands in
   and around 0..255, on which the host calls initialise() and step() *)

\* operands range over -MaxExcess..(255 + MaxExcess), and none
MaxExcess == 260

CodecOperands ==
    {Undefined} \cup {Num(n) : n \in (0 - MaxExcess)..(OperandMask + MaxExcess)}

CodecOptions ==
    [program : {<<Instr(o, p)>> : o \in HLT..DAT, p \in CodecOperands},
     memorySize : {2}, appendHalt : {FALSE}, onDump : {FALSE}, onInput : {InputValues}]

CodecInit == \E opts \in CodecOptions : InitWith(opts)

CodecNext == initialise \/ step

SpecCodec == CodecInit /\ [][CodecNext]_vars

-----------------------------------------------------------------------------
(* Construction: the host holds the options and calls new Interpreter(options) *)

\* new Array(n) throws a RangeError when n is negative
ConstructorThrows(opts) == opts.memorySize < 0

\* Before the constructor is called there is no engine
NotConstructed(opts) ==
    /\ options = opts
    /\ accumulator = Num(0)
    /\ programCounter = 0
    /\ instructionRegister = 0
    /\ addressRegister = 0
    /\ memory = <<>>
    /\ runState = "absent"
    /\ calls = <<>>
    /\ last = NoCall
    /\ runOrigin = Origin(NoCall)

\* new Interpreter(options)
construct ==
    /\ runState = "absent"
    /\ IF ConstructorThrows(options)
       THEN runState' = "rejected" /\ UNCHANGED <<Registers, memory>>
       ELSE runState' = "idle" /\ Becomes(Constructed(options))
    /\ UNCHANGED <<options, calls, last, runOrigin, ParserState>>

\* One-instruction programs, memory sizes around zero
ConstructOptions ==
    [program : {<<a>> : a \in Alphabet}, memorySize : {-1, 0, 1},
     appendHalt : BOOLEAN, onDump : {FALSE}, onInput : {InputValues}]

ConstructInit ==
    /\ \E opts \in ConstructOptions : NotConstructed(opts)
    /\ parserOptions = NoProgram
    /\ result = Unparsed

ConstructNext == construct \/ Next

SpecConstruct == ConstructInit /\ [][ConstructNext]_vars

-----------------------------------------------------------------------------
(* Strings of the programs that are parsed *)

\* lines.join("\n") and tokens.join(" ")
RECURSIVE Join(_, _)
Join(strs, sep) ==
    IF strs = <<>> THEN <<>>
    ELSE IF Len(strs) = 1 THEN strs[1]
    ELSE strs[1] \o sep \o Join(Tail(strs), sep)

Text(lines) == Join(lines, <<"\n">>)
Line(tokens) == Join(tokens, <<" ">>)

\* Tokens
Thlt == <<"h", "l", "t">>
Tadd == <<"a", "d", "d">>
Tsta == <<"s", "t", "a">>
Tlda == <<"l", "d", "a">>
Tbra == <<"b", "r", "a">>
Tinp == <<"i", "n", "p">>
Tout == <<"o", "u", "t">>
Tdat == <<"d", "a", "t">>
Terr == <<"e", "r", "r">>
Tend == <<"e", "n", "d">>
Tloop == <<"l", "o", "o", "p">>

-----------------------------------------------------------------------------
(* The host parses a program, constructs an engine on the instructions and
   uses the engine, as example.ts does *)

\* parser.parse()
parserParse ==
    /\ ~result.called
    /\ result' = Parsed(parse(parserOptions))
    /\ UNCHANGED <<options, Registers, memory, runState, calls, last, runOrigin,
                   parserOptions>>

\* new Interpreter({program: result.instructions, ...})
constructParsed ==
    /\ runState = "absent"
    /\ result.called /\ ~result.value.thrown
    /\ options' = [options EXCEPT !.program = result.value.instructions]
    /\ runState' = "idle"
    /\ Becomes(Constructed(options'))
    /\ UNCHANGED <<calls, last, runOrigin, ParserState>>

\* "dat", "lda 5", "inp / sta 3", "inp / add 1 / out", "inp / out / hlt"
ParsedPrograms ==
    { Text(<<Tdat>>),
      Text(<<Line(<<Tlda, <<"5">>>>)>>),
      Text(<<Tinp, Line(<<Tsta, <<"3">>>>)>>),
      Text(<<Tinp, Line(<<Tadd, <<"1">>>>), Tout>>),
      Text(<<Tinp, Tout, Thlt>>) }

\* What the host passes to the constructor besides the program
HostOptions ==
    [program : {<<>>}, memorySize : {2, 4},
     appendHalt : BOOLEAN, onDump : {FALSE}, onInput : {InputValues}]

ParsedInit ==
    /\ \E opts \in HostOptions : NotConstructed(opts)
    /\ \E program \in ParsedPrograms :
          parserOptions = ParserOptions(program, TRUE, <<"/", "/">>, TRUE, <<";">>)
    /\ result = Unparsed

ParsedNext == parserParse \/ constructParsed \/ Next

SpecParsed == ParsedInit /\ [][ParsedNext]_vars

-----------------------------------------------------------------------------
(* The parser alone: programs of up to MaxLines lines, each line one of the
   statements below, on which the host calls parse() *)

\* a program has 1..MaxLines lines
MaxLines == 3

Tfoo == <<"f", "o", "o">>
T1x == <<"1", "x">>

\* hlt | bra end | end hlt | loop bra loop | end dat 1 | (blank) | 1x hlt |
\* foo | lda ? | add | end lda 5 end | end add
StatementLines ==
    { Thlt, Line(<<Tbra, Tend>>), Line(<<Tend, Thlt>>), Line(<<Tloop, Tbra, Tloop>>),
      Line(<<Tend, Tdat, <<"1">>>>), <<>>, Line(<<T1x, Thlt>>),
      Tfoo, Line(<<Tlda, <<"?">>>>), Tadd, Line(<<Tend, Tlda, <<"5">>, Tend>>),
      Line(<<Tend, Tadd>>) }

ParserPrograms ==
    {Text(lines) : lines \in UNION {[1..n -> StatementLines] : n \in 1..MaxLines}}

ParserInit ==
    /\ NotConstructed([program |-> <<>>, memorySize |-> 2, appendHalt |-> FALSE,
                       onDump |-> FALSE, onInput |-> InputValues])
    /\ \E program \in ParserPrograms :
          parserOptions = ParserOptions(program, TRUE, <<"/", "/">>, TRUE, <<";">>)
    /\ result = Unparsed

ParserNext == parserParse

SpecParser == ParserInit /\ [][ParserNext]_vars

-----------------------------------------------------------------------------
(* The parser on statements of two and three tokens, and on the I/O
   mnemonics: programs of up to MaxLines lines of the statements below *)

ProgramsOf(statementLines) ==
    {Text(lines) : lines \in UNION {[1..n -> statementLines] : n \in 1..MaxLines}}

ParserInitOn(programs) ==
    /\ NotConstructed([program |-> <<>>, memorySize |-> 2, appendHalt |-> FALSE,
                       onDump |-> FALSE, onInput |-> InputValues])
    /\ \E program \in programs :
          parserOptions = ParserOptions(program, TRUE, <<"/", "/">>, TRUE, <<";">>)
    /\ result = Unparsed

\* hlt dat 1 | add hlt | lda 5 | end hlt | bra end | foo bar | 5 7 | end add |
\* end lda ?
TokenLines ==
    { Line(<<Thlt, Tdat, <<"1">>>>), Line(<<Tadd, Thlt>>), Line(<<Tlda, <<"5">>>>),
      Line(<<Tend, Thlt>>), Line(<<Tbra, Tend>>), Line(<<Tfoo, <<"b", "a", "r">>>>),
      Line(<<<<"5">>, <<"7">>>>), Line(<<Tend, Tadd>>), Line(<<Tend, Tlda, <<"?">>>>) }

TokensInit == ParserInitOn(ProgramsOf(TokenLines))

TokensNext == parserParse

SpecTokens == TokensInit /\ [][TokensNext]_vars

Totc == <<"o", "t", "c">>

\* inp | Out | OTC | end inp | loop otc | out 5 | end otc 7 | inp 0
IOLines ==
    { Tinp, <<"O", "u", "t">>, <<"O", "T", "C">>, Line(<<Tend, Tinp>>),
      Line(<<Tloop, Totc>>), Line(<<Tout, <<"5">>>>), Line(<<Tend, Totc, <<"7">>>>),
      Line(<<Tinp, <<"0">>>>) }

IOInit == ParserInitOn(ProgramsOf(IOLines))

IONext == parserParse

SpecIO == IOInit /\ [][IONext]_vars

-----------------------------------------------------------------------------
(* The parser on lines to split and comments to strip: programs of up to
   MaxLines pieces, joined by newlines or by the split sequence ";;", parsed
   with splitting and comments enabled or not *)

TsplitSequence == <<";", ";">>
TcommentSequence == <<"/", "/">>

\* hlt | out | (a space) | (nothing) | hlt//x | out // hlt // out
Pieces ==
    { Thlt, Tout, <<" ">>, <<>>, Thlt \o TcommentSequence \o <<"x">>,
      Join(<<Tout, TcommentSequence, Thlt, TcommentSequence, Tout>>, <<" ">>) }

\* pieces[1] seps[1] pieces[2] ... pieces[n]
RECURSIVE Interleave(_, _)
Interleave(pieces, seps) ==
    IF Len(pieces) = 1 THEN pieces[1]
    ELSE pieces[1] \o seps[1] \o Interleave(Tail(pieces), Tail(seps))

PreparePrograms ==
    UNION { {Interleave(pieces, seps) :
                pieces \in [1..n -> Pieces],
                seps \in [1..(n - 1) -> {<<"\n">>, TsplitSequence}]} : n \in 1..MaxLines }

PrepareInit ==
    /\ NotConstructed([program |-> <<>>, memorySize |-> 2, appendHalt |-> FALSE,
                       onDump |-> FALSE, onInput |-> InputValues])
    /\ \E program \in PreparePrograms, c \in BOOLEAN, sp \in BOOLEAN :
          parserOptions = ParserOptions(program, c, TcommentSequence, sp, TsplitSequence)
    /\ result = Unparsed

PrepareNext == parserParse

SpecPrepare == PrepareInit /\ [][PrepareNext]_vars

-----------------------------------------------------------------------------
(* Engines without branches and stores: run() is a loop that the host does
   not interrupt, so a turn of the loop that can be taken is taken *)

\* Instructions and data cells that decode neither to a branch nor to a store
StraightAlphabet ==
    { Instr(HLT, Undefined), Instr(ERR, Undefined),
      Instr(ADD, Num(5)), Instr(SUB, Num(5)), Instr(LDA, Num(1)), Instr(LDA, Num(5)),
      Instr(INP, Num(INPUT)), Instr(INP, Num(OUTPUT)), Instr(INP, Num(CHAR)),
      Instr(INP, Undefined),
      Instr(DAT, Undefined), Instr(DAT, Num(2)), Instr(DAT, Num(-1)),
      Instr(DAT, Num(2570)) }

\* Every one of them alone, and an input, an output, a load or a no-op data
\* cell followed by any of them
StraightPrograms ==
    {<<a>> : a \in StraightAlphabet \cup {Instr(ADD, Num(1)), Instr(SUB, Num(1))}}
        \cup {<<a, b>> : a \in {Instr(INP, Num(INPUT)), Instr(INP, Num(OUTPUT)),
                                Instr(LDA, Num(1)), Instr(DAT, Num(2570))},
                         b \in StraightAlphabet}

StraightOptions ==
    [program : StraightPrograms, memorySize : MemorySizes,
     appendHalt : BOOLEAN, onDump : {FALSE}, onInput : {InputValues}]

StraightInit == \E opts \in StraightOptions : InitWith(opts)

StraightNext == initialise \/ step \/ wipe \/ run \/ runLoop \/ runFinished

SpecStraight ==
    StraightInit /\ [][StraightNext]_vars /\ WF_vars(runLoop) /\ WF_vars(runFinished)

-----------------------------------------------------------------------------
(* The host parses a program of I/O statements with explicit operands,
   constructs an engine on the instructions and uses the engine *)

\* out 1 | inp 2 | otc 3 / out 1 | inp 0 / inp 2 | out 3 | otc | inp 22
SharedIOPrograms ==
    { Text(<<Line(<<Tout, <<"1">>>>)>>),
      Text(<<Line(<<Tinp, <<"2">>>>)>>),
      Text(<<Line(<<Totc, <<"3">>>>), Line(<<Tout, <<"1">>>>)>>),
      Text(<<Line(<<Tinp, <<"0">>>>), Line(<<Tinp, <<"2">>>>)>>),
      Text(<<Line(<<Tout, <<"3">>>>)>>),
      Text(<<Totc>>),
      Text(<<Line(<<Tinp, <<"2", "2">>>>)>>) }

SharedIOInit ==
    /\ \E opts \in HostOptions : NotConstructed(opts)
    /\ \E program \in SharedIOPrograms :
          parserOptions = ParserOptions(program, TRUE, <<"/", "/">>, TRUE, <<";">>)
    /\ result = Unparsed

SharedIONext == parserParse \/ constructParsed \/ Next

SpecSharedIO == SharedIOInit /\ [][SharedIONext]_vars

-----------------------------------------------------------------------------
(* What the claims speak about *)

\* A step() is taken: by the host, or by the loop of run()
StepTaken == step \/ runLoop

\* The cell a step() fetches, and the opcode and operand it decodes from it:
\* bits 8..15 and bits 0..7 of the cell (0 for a cell that is not a number)
FetchedCell == ArrGet(memory, programCounter)
CellOpcode(v) == IF IsNum(v) THEN (v.n % 65536) \div 256 ELSE 0
CellOperand(v) == IF IsNum(v) THEN v.n % 256 ELSE 0

\* The recognised opcodes
Recognised == 0..10

\* The callbacks a transition invokes
Invoked == IF runState = "loop" THEN SubSeq(calls', Len(calls) + 1, Len(calls')) ELSE calls'

Only(evs, names) == SelectSeq(evs, LAMBDA c : c.ev \in names)
Count(evs, names) == Len(Only(evs, names))

\* C4: step() returns false exactly when the fetched cell is zero or absent or
\* decodes to the halt opcode (a NaN cell decodes to opcode 0); every other
\* fetched cell with a recognised opcode other than ERR makes it return true.
C4_StepReturnsFalseOnHalt ==
    [][StepTaken =>
        LET halting == \/ FetchedCell \in {Num(0), Undefined}
                       \/ CellOpcode(FetchedCell) = HLT
        IN /\ (last'.ret = "false") <=> halting
           /\ (~halting /\ CellOpcode(FetchedCell) \in Recognised \ {ERR})
                 => last'.ret = "true"]_vars

\* A step() returned false on a non-zero cell that decodes to halt with an operand
C4_Witness ==
    /\ last.op = "step" /\ last.ret = "false"
    /\ IsNum(last.raw) /\ last.raw.n # 0 /\ CellOpcode(last.raw) = HLT

IOInvoked == Only(Invoked, {"onInput", "onOutput"})

IOExecuted(mode) ==
    /\ ~Falsy(FetchedCell)
    /\ CellOpcode(FetchedCell) = INP
    /\ CellOperand(FetchedCell) = mode

C6_IOCallbacksCodeIsAccumulator ==
    [][StepTaken =>
        CASE IOExecuted(INPUT) ->
                /\ Len(IOInvoked) = 1 /\ IOInvoked[1].ev = "onInput"
                /\ accumulator' = IOInvoked[1].val
          [] IOExecuted(OUTPUT) ->
                IOInvoked = <<Call("onOutput", accumulator)>>
          [] IOExecuted(CHAR) /\ IsNum(accumulator) ->
                IOInvoked = <<Call("onOutput", Chr(accumulator.n))>>
          [] IOExecuted(CHAR) /\ ~IsNum(accumulator) ->
                Len(IOInvoked) = 1 /\ IOInvoked[1].ev = "onOutput"
          [] OTHER -> IOInvoked = <<>>]_vars

\* C6 as amended: the character given to onOutput for sub-mode 22 has the code
\* accumulator mod 65536 (0 when the accumulator is not a number); and a run()
\* of a program of halts only invokes neither callback, and a run() of the
\* program "inp" on a new engine invokes onInput once and onOutput never.
AllHalts(program) == \A i \in 1..Len(program) : program[i] = Instr(HLT, Undefined)

C6_IOCallbacks ==
    /\ [][StepTaken =>
            CASE IOExecuted(INPUT) ->
                    /\ Len(IOInvoked) = 1 /\ IOInvoked[1].ev = "onInput"
                    /\ accumulator' = IOInvoked[1].val
              [] IOExecuted(OUTPUT) ->
                    IOInvoked = <<Call("onOutput", accumulator)>>
              [] IOExecuted(CHAR) ->
                    IOInvoked = <<Call("onOutput",
                        Chr(IF IsNum(accumulator) THEN accumulator.n % 65536 ELSE 0))>>
              [] OTHER -> IOInvoked = <<>>]_vars
    /\ [](runState = "finished" /\ AllHalts(options.program)
            => Count(calls, {"onInput", "onOutput"}) = 0)
    /\ [](runState = "finished" /\ runOrigin.op = "none"
          /\ options.program = <<Instr(INP, Num(INPUT))>>
            => Count(calls, {"onInput"}) = 1 /\ Count(calls, {"onOutput"}) = 0)

\* A run() has output a character for a negative accumulator
C6_Witness ==
    /\ runState = "finished"
    /\ last.op = "step"
    /\ \E i \in 1..Len(calls) :
          /\ calls[i].ev = "onOutput" /\ calls[i].val.k = "chr"
          /\ \E j \in 1..(i - 1) : calls[j].ev = "onInput" /\ calls[j].val.n < 0

\* C7: a run() that ends without a fault has invoked onFinished exactly once,
\* as its last callback, after a step() that returned false; a run() that has
\* not ended so has not invoked it.
C7_FinishedOnceAtEnd ==
    /\ runState = "finished" =>
          /\ calls # <<>>
          /\ calls[Len(calls)].ev = "onFinished"
          /\ Count(calls, {"onFinished"}) = 1
          /\ last.op = "step" /\ last.ret = "false"
    /\ runState \in {"loop", "finishing", "faulted"} =>
          Count(calls, {"onFinished"}) = 0

\* A run() with input, output and onDump has finished
C7_Witness ==
    /\ runState = "finished"
    /\ Count(calls, {"onInput"}) > 0
    /\ Count(calls, {"onOutput"}) > 0
    /\ Count(calls, {"onDump"}) > 0

\* C8: a step() that decodes ERR or an opcode outside 0..10 raises an Error and
\* invokes no callback; in run() the Error leaves run(): no onFinished, no
\* onDump, no further step().
Faulting(v) == ~Falsy(v) /\ CellOpcode(v) \notin (Recognised \ {ERR})

C8_FaultIsFatal ==
    /\ [][(StepTaken /\ Faulting(FetchedCell)) =>
            /\ last'.ret = "throw"
            /\ Invoked = <<>>
            /\ runState = "loop" => runState' = "faulted"]_vars
    /\ [][runState = "faulted" => ~(runLoop \/ runFinished)]_vars
    /\ [](runState = "faulted" =>
            /\ last.op = "step" /\ last.ret = "throw"
            /\ Count(calls, {"onFinished"}) = 0)

\* A run() has faulted on an opcode outside 0..10 after invoking callbacks
C8_Witness ==
    /\ runState = "faulted"
    /\ CellOpcode(last.raw) \notin Recognised
    /\ calls # <<>>

\* C9: initialise() writes the literal operand of a data declaration and
\* (opcode << 8) | (operand or 0) of any other instruction at the index of the
\* instruction, the halt encoding 0 right after the program when appendHalt is
\* set, and changes no other cell and no register.
ExpectedCell(instruction) ==
    IF instruction.opcode = Num(DAT)
    THEN instruction.operand
    ELSE Num(BitOr(instruction.opcode.n * 256,
                   IF Falsy(instruction.operand) THEN 0 ELSE instruction.operand.n))

Written(opts) ==
    0..(Len(opts.program) - 1) \cup (IF opts.appendHalt THEN {Len(opts.program)} ELSE {})

C9_InitialiseLoadsProgram ==
    [][(initialise \/ run) =>
        /\ \A i \in 0..(Len(options.program) - 1) :
              ArrGet(memory', i) = ExpectedCell(options.program[i + 1])
        /\ options.appendHalt => ArrGet(memory', Len(options.program)) = Num(0)
        /\ \A i \in 0..(Len(memory') - 1) :
              i \notin Written(options) => ArrGet(memory', i) = ArrGet(memory, i)
        /\ Len(memory') >= Len(memory)
        /\ UNCHANGED Registers]_vars

\* initialise() has acted on an engine that had executed instructions and
\* holds a value in a cell outside the program
C9_Witness ==
    /\ last.op = "initialise" /\ last.pc > 0
    /\ \E i \in 0..(Len(memory) - 1) :
          i \notin Written(options) /\ ArrGet(memory, i) \notin {Num(0), Undefined}

\* C10: wipe() leaves the four registers at 0 and the memory at memorySize
\* zero cells; and a run() called right after wipe() ends with the callbacks,
\* registers and memory of run() on a newly constructed engine with the same
\* options and the same values from onInput.
InputsOf(evs) ==
    [i \in 1..Count(evs, {"onInput"}) |-> Only(evs, {"onInput"})[i].val]

C10_WipeThenRunAsNew ==
    /\ last.op = "wipe" =>
          /\ accumulator = Num(0)
          /\ programCounter = 0
          /\ instructionRegister = 0
          /\ addressRegister = 0
          /\ memory = [j \in 1..options.memorySize |-> Num(0)]
    /\ (runState \in {"finished", "faulted"} /\ runOrigin.op = "wipe") =>
          LET new == RunOutcome(Constructed(options), options, InputsOf(calls), RunFuel)
          IN /\ new.runState = runState
             /\ new.calls = calls
             /\ new.engine = Current

\* A run() right after a wipe() of a used engine has finished with input and output
C10_Witness ==
    /\ runState = "finished"
    /\ runOrigin = [op |-> "wipe", used |-> TRUE]
    /\ Count(calls, {"onInput"}) > 0
    /\ Count(calls, {"onOutput"}) > 0

-----------------------------------------------------------------------------
(* The example and the codec *)

\* C1: the example program, translated with line splitting on ";" and run on
\* a new engine of 100 cells, invokes onInput once, then onOutput with the
\* value n that onInput returned, then onOutput with n + 2, then onFinished,
\* and nothing else; it does not fault.  (runOrigin.op = "none": the run() is
\* the first call on the engine.)
ExampleCalls(n) ==
    <<Call("onInput", Num(n)), Call("onOutput", Num(n)), Call("onOutput", Num(n + 2)),
      Call("onFinished", Undefined)>>

C1_ExampleCallbacks ==
    /\ options.memorySize = ExampleMemorySize
    /\ runOrigin.op = "none" =>
          /\ runState # "faulted"
          /\ \E n \in -MaxExampleInput..MaxExampleInput :
                \/ runState = "finished" /\ calls = ExampleCalls(n)
                \/ /\ runState \in {"idle", "loop", "finishing"}
                   /\ Len(calls) < 4
                   /\ calls = SubSeq(ExampleCalls(n), 1, Len(calls))
          /\ runState = "finishing" => Len(calls) = 3

\* A first run in which onInput returns 3: the outputs are 3 and 5
C1_Witness ==
    /\ runState = "finished"
    /\ runOrigin.op = "none"
    /\ calls = ExampleCalls(3)

\* An instruction of opcode 0..9 and operand 0..255
InRoundTripRange(instruction) ==
    /\ instruction.opcode.n \in 0..9
    /\ IsNum(instruction.operand) /\ instruction.operand.n \in 0..255

\* C2: decode(encode({opcode: o, operand: p})) = {opcode: o, operand: p} for o
\* in 0..9 and p in 0..255: the cell that initialise() encodes decodes to o and
\* p, and a step() that fetches it leaves o in the instruction register and p in
\* the address register.
C2_EncodeDecodeRoundTrip ==
    InRoundTripRange(options.program[1]) =>
        /\ last.op = "initialise" =>
              decode(ArrGet(memory, 0)) =
                  [opcode |-> options.program[1].opcode.n,
                   operand |-> options.program[1].operand]
        /\ (last.op = "step" /\ last.pc = 0 /\ ~Falsy(last.raw)) =>
              /\ instructionRegister = options.program[1].opcode.n
              /\ addressRegister = options.program[1].operand.n

\* The instruction of the largest opcode and operand of the range was encoded,
\* fetched and decoded
C2_Witness ==
    /\ options.program = <<Instr(INP, Num(OperandMask))>>
    /\ last.op = "step" /\ last.pc = 0 /\ ~Falsy(last.raw)
    /\ instructionRegister = INP /\ addressRegister = OperandMask

\* C3: for a non-data instruction of opcode o and integer operand p, the cell
\* initialise() writes is (o << 8) | (p & 0xFF): it decodes to opcode o and
\* operand p mod 256.
C3_OperandMaskedOnEncode ==
    LET instruction == options.program[1]
        cell == ArrGet(memory, 0)
    IN (last.op = "initialise" /\ instruction.opcode # Num(DAT) /\ IsNum(instruction.operand)) =>
          /\ cell = Num((instruction.opcode.n * 256) + (instruction.operand.n % 256))
          /\ CellOpcode(cell) = instruction.opcode.n
          /\ CellOperand(cell) = instruction.operand.n % 256

\* C11: a second run() on the same engine without a wipe() in between starts
\* from the state the previous run() left: from the end of the first run to
\* the first fetch of the second, no register and no memory cell is modified.
C11_SecondRunResumes ==
    [][(run /\ runState = "finished") =>
        (memory' = memory /\ UNCHANGED Registers)]_vars

\* C12: the memory of an engine constructed with memory size N has N cells in
\* every state that initialise(), step(), run() and wipe() can reach.
C12_MemoryLengthFixed ==
    Len(memory) = options.memorySize

\* The instruction of the program that was loaded into the cell a step() fetches
AtProgram == programCounter < Len(options.program)
Loaded == options.program[programCounter + 1]

\* C14: a step() that executes a cell loaded from a data-declaration
\* instruction, whatever its literal value, returns true, advances the program
\* counter by one, invokes no callback and leaves the accumulator and the
\* memory unchanged.
C14_DataCellIsNoOp ==
    [][(StepTaken /\ AtProgram /\ Loaded.opcode = Num(DAT)
                  /\ FetchedCell = Loaded.operand) =>
        /\ last'.ret = "true"
        /\ programCounter' = programCounter + 1
        /\ IOInvoked = <<>>
        /\ accumulator' = accumulator
        /\ memory' = memory]_vars

\* C15: a step() that decodes an instruction that was given to the engine
\* without an operand leaves the address register as it was.
C15_AddressRegisterKept ==
    [][(StepTaken /\ AtProgram /\ Loaded.operand = Undefined
                  /\ FetchedCell = ExpectedCell(Loaded) /\ ~Falsy(FetchedCell)) =>
        addressRegister' = addressRegister]_vars

\* C13: on an engine whose program Parser.parse() produced and whose onInput
\* returns integers, the accumulator and every memory cell hold an integer in
\* every reachable state.
C13_IntegersOnly ==
    runState \notin {"absent", "rejected"} =>
        /\ IsNum(accumulator)
        /\ \A i \in 0..(Len(memory) - 1) : IsNum(ArrGet(memory, i))

\* C16: an Interpreter with memory size zero or negative is rejected at
\* construction: no engine comes into existence.
C16_NonPositiveSizeRejected ==
    options.memorySize <= 0 => runState \in {"absent", "rejected"}

-----------------------------------------------------------------------------
(* The parser's claims: a program as its statements *)

\* The statements of a program: the tokens of its non-blank lines, in order
StatementsOf(opts) ==
    LET lines == PreparedLines(opts)
        kept == SelectSeq(lines, LAMBDA l : l # Undefined /\ Trim(l.s) # <<>>)
    IN [k \in 1..Len(kept) |-> SplitWhiteSpace(Trim(kept[k].s), <<>>)]

\* The parts of a statement "[label] opcode [operand]" of one to three tokens
OpcodeToken(t) ==
    CASE Len(t) = 1 -> t[1]
      [] Len(t) = 2 -> IF findOpcode(t[1]) # Undefined THEN t[1] ELSE t[2]
      [] OTHER -> t[2]
HasOperand(t) == Len(t) = 3 \/ (Len(t) = 2 /\ findOpcode(t[1]) # Undefined)
OperandToken(t) == t[Len(t)]
HasLabelToken(t) == Len(t) = 3 \/ (Len(t) = 2 /\ findOpcode(t[1]) = Undefined)
LabelToken(t) == t[1]
IsLabelName(token) == ParseInt(token) = NaN /\ testLabel(token)

\* The translation errors of a statement
TooManyTokens(t) == Len(t) > 3
UnknownOpcode(t) == Len(t) <= 3 /\ findOpcode(OpcodeToken(t)) = Undefined
InvalidOperand(t) ==
    /\ Len(t) <= 3 /\ ~UnknownOpcode(t) /\ HasOperand(t)
    /\ ParseInt(OperandToken(t)) = NaN /\ ~testLabel(OperandToken(t))
MissingOperand(t) ==
    Len(t) <= 3 /\ ~HasOperand(t) /\ findOpcode(OpcodeToken(t)) \in NeedsOperand
StatementFails(t) ==
    TooManyTokens(t) \/ UnknownOpcode(t) \/ InvalidOperand(t) \/ MissingOperand(t)

\* A statement at which the first pass stops: one that fails, or an err
ErrOpcode(t) == Len(t) <= 3 /\ findOpcode(OpcodeToken(t)) = Num(ERR)
Stops(t) == StatementFails(t) \/ ErrOpcode(t)

\* The first statement at which the first pass stops, 0 when there is none
FirstStop(stmts) ==
    LET stops == {k \in 1..Len(stmts) : Stops(stmts[k])}
    IN IF stops = {} THEN 0 ELSE CHOOSE k \in stops : \A j \in stops : k <= j

\* The statements before k that define the label `name`
Definers(stmts, name, k) ==
    {j \in 1..(k - 1) : HasLabelToken(stmts[j]) /\ LabelToken(stmts[j]) = name
                        /\ testLabel(name)}
FirstDefiner(stmts, name) ==
    CHOOSE j \in Definers(stmts, name, Len(stmts) + 1) :
        \A i \in Definers(stmts, name, Len(stmts) + 1) : j <= i

Returned == result.called /\ ~result.value.thrown

\* C17: for a program that translates without a first-pass error, every
\* instruction written with a label name as operand, the label being defined on
\* an earlier line, a later line or the same line, has in the output the
\* integer operand labels[name], the zero-based position of the instruction of
\* the (first) line that defines the label.
C17_LabelOperandsResolved ==
    Returned =>
        LET stmts == StatementsOf(parserOptions)
            out == result.value
        IN FirstStop(stmts) = 0 =>
            /\ Len(out.instructions) = Len(stmts)
            /\ \A k \in 1..Len(stmts) :
                  LET name == OperandToken(stmts[k])
                  IN (/\ HasOperand(stmts[k]) /\ IsLabelName(name)
                      /\ Definers(stmts, name, Len(stmts) + 1) # {}) =>
                        /\ HasLabel(out.labels, name)
                        /\ out.labels[name] = FirstDefiner(stmts, name) - 1
                        /\ out.instructions[k].operand = Num(out.labels[name])
                        /\ out.instructions[k].opcode = findOpcode(OpcodeToken(stmts[k]))

\* "bra end / end hlt / bra end" was translated: a forward and a backward
\* reference to position 1
C17_Witness ==
    /\ Returned
    /\ parserOptions.program = Text(<<Line(<<Tbra, Tend>>), Line(<<Tend, Thlt>>),
                                     Line(<<Tbra, Tend>>)>>)
    /\ result.value.instructions =
          <<Instr(BRA, Num(1)), Instr(HLT, Undefined), Instr(BRA, Num(1))>>

\* C18: when parse() returns, every position in the label table is an index
\* into the returned instructions, 0 <= position < their number, also for a
\* label defined on the line at which the translation stopped with an error.
C18_LabelsAreValidIndices ==
    Returned =>
        \A name \in DOMAIN result.value.labels :
            /\ 0 <= result.value.labels[name]
            /\ result.value.labels[name] < Len(result.value.instructions)

\* "hlt / end add" was translated: the label of the failing line is at the
\* position of the ERR instruction
C18_Witness ==
    /\ Returned
    /\ parserOptions.program = Text(<<Thlt, Line(<<Tend, Tadd>>)>>)
    /\ HasLabel(result.value.labels, Tend) /\ result.value.labels[Tend] = 1
    /\ result.value.instructions = <<Instr(HLT, Undefined), Instr(ERR, Undefined)>>

\* C19: a statement whose label is invalid, or is defined by an earlier
\* statement already, is a translation error: the output ends with an ERR
\* instruction for that statement and no later statement is processed.
C19_BadLabelIsError ==
    Returned =>
        LET stmts == StatementsOf(parserOptions)
            out == result.value
            reached == IF FirstStop(stmts) = 0 THEN Len(stmts) ELSE FirstStop(stmts)
        IN \A k \in 1..reached :
              (/\ HasLabelToken(stmts[k])
               /\ \/ ~testLabel(LabelToken(stmts[k]))
                  \/ Definers(stmts, LabelToken(stmts[k]), k) # {}) =>
                    /\ Len(out.instructions) = k
                    /\ out.instructions[k].opcode = Num(ERR)

\* The operand an operand-less I/O mnemonic stands for
IODefault(token) ==
    CASE ToLowerCase(token) = Tinp -> Num(INPUT)
      [] ToLowerCase(token) = Tout -> Num(OUTPUT)
      [] ToLowerCase(token) = <<"o", "t", "c">> -> Num(CHAR)
      [] OTHER -> Undefined

\* The instruction of a statement that does not fail, given the label table:
\* a reference to a label that is in no table is the ERR instruction
InstructionOf(t, labels) ==
    LET opcode == findOpcode(OpcodeToken(t))
    IN IF ~HasOperand(t) THEN [opcode |-> opcode, operand |-> IODefault(OpcodeToken(t))]
       ELSE IF ParseInt(OperandToken(t)) # NaN
            THEN [opcode |-> opcode, operand |-> ParseInt(OperandToken(t))]
            ELSE IF HasLabel(labels, OperandToken(t))
                 THEN [opcode |-> opcode, operand |-> Num(labels[OperandToken(t)])]
                 ELSE [opcode |-> Num(ERR), operand |-> Undefined]

\* C20: when the first pass hits a translation error on a statement (unknown
\* opcode, invalid operand, missing required operand, more than three tokens),
\* the output is the instructions of the preceding statements in order,
\* followed by one ERR instruction as the last element, and no statement after
\* the failing one contributes an instruction or a label.
C20_ErrorStopsTranslation ==
    Returned =>
        LET stmts == StatementsOf(parserOptions)
            out == result.value
            f == FirstStop(stmts)
        IN (f # 0 /\ StatementFails(stmts[f])) =>
            /\ Len(out.instructions) = f
            /\ out.instructions[f] = [opcode |-> Num(ERR), operand |-> Undefined]
            /\ \A k \in 1..(f - 1) :
                  out.instructions[k] = InstructionOf(stmts[k], out.labels)
            /\ \A name \in DOMAIN out.labels : Definers(stmts, name, f + 1) # {}

\* "bra end / foo / end hlt" was translated: the reference before the failing
\* statement finds no label, the statement after it contributes nothing
C20_Witness ==
    /\ Returned
    /\ parserOptions.program = Text(<<Line(<<Tbra, Tend>>), Tfoo, Line(<<Tend, Thlt>>)>>)
    /\ result.value.instructions = <<Instr(ERR, Undefined), Instr(ERR, Undefined)>>
    /\ result.value.labels = NoLabels

\* The intermediary instructions and the label table the first pass leaves
FirstPass == Tokenise(Parsing(<<>>, NoLabels, FALSE, FALSE), PreparedLines(parserOptions), 1)
Unresolved(instruction, labels) ==
    instruction.operand.k = "str" /\ ~HasLabel(labels, instruction.operand.s)

\* C21: the second pass replaces an instruction whose label-name operand is
\* not in the label table by an ERR instruction at the same position; the
\* length of the sequence, the opcode of every other instruction and every
\* operand that is not a label name are unchanged.
C21_UnresolvedBecomesErr ==
    Returned =>
        LET first == FirstPass.instructions
            out == result.value.instructions
        IN /\ Len(out) = Len(first)
           /\ \A k \in 1..Len(first) :
                 IF Unresolved(first[k], FirstPass.labels)
                 THEN out[k] = [opcode |-> Num(ERR), operand |-> Undefined]
                 ELSE /\ out[k].opcode = first[k].opcode
                      /\ first[k].operand.k # "str" => out[k].operand = first[k].operand

\* "bra end / hlt / loop bra loop" was translated: the first instruction is
\* ERR, the others are as the first pass left them
C21_Witness ==
    /\ Returned
    /\ parserOptions.program = Text(<<Line(<<Tbra, Tend>>), Thlt, Line(<<Tloop, Tbra, Tloop>>)>>)
    /\ result.value.instructions =
          <<Instr(ERR, Undefined), Instr(HLT, Undefined), Instr(BRA, Num(2))>>

\* C27: when a label name is defined on more than one statement, the label
\* table maps it to the position of the first defining statement, and every
\* reference to the name resolves to that position.
C27_FirstDefinitionWins ==
    Returned =>
        LET stmts == StatementsOf(parserOptions)
            out == result.value
            reached == IF FirstStop(stmts) = 0 THEN Len(stmts) ELSE FirstStop(stmts)
        IN \A name \in DOMAIN out.labels :
              Cardinality(Definers(stmts, name, reached + 1)) > 1 =>
                 /\ out.labels[name] = FirstDefiner(stmts, name) - 1
                 /\ \A k \in 1..Len(out.instructions) :
                       (/\ ~Stops(stmts[k]) /\ HasOperand(stmts[k])
                        /\ OperandToken(stmts[k]) = name) =>
                          out.instructions[k].operand = Num(FirstDefiner(stmts, name) - 1)

\* "end hlt / end dat 1 / bra end" was translated: end is position 0
C27_Witness ==
    /\ Returned
    /\ parserOptions.program =
          Text(<<Line(<<Tend, Thlt>>), Line(<<Tend, Tdat, <<"1">>>>), Line(<<Tbra, Tend>>)>>)
    /\ result.value.labels[Tend] = 0
    /\ result.value.instructions =
          <<Instr(HLT, Undefined), Instr(DAT, Num(1)), Instr(BRA, Num(0))>>

\* A token is a mnemonic: the name of a member of Opcode, in any letter case
IsMnemonic(token) == findOpcode(token).k = "num"

\* The statements the first pass reaches
Reached(stmts) == IF FirstStop(stmts) = 0 THEN Len(stmts) ELSE FirstStop(stmts)

\* C23: no label whose name is a mnemonic (compared without regard to letter
\* case) is in the label table parse() returns, whether its line has two or
\* three tokens.
C23_NoMnemonicLabel ==
    Returned => \A name \in DOMAIN result.value.labels : ~IsMnemonic(name)

\* C24: in a two-token statement, when token[0] is a mnemonic token[1] is the
\* operand and the statement defines no label; when token[0] is no mnemonic
\* and token[1] is, token[0] becomes a label at the position of the
\* instruction; when neither is a mnemonic the statement is a translation
\* error.
C24_OpcodeFirst ==
    Returned =>
        LET stmts == StatementsOf(parserOptions)
            out == result.value
        IN \A k \in 1..Reached(stmts) :
              LET t == stmts[k]
                  good == k <= Len(out.instructions)
                          /\ out.instructions[k].opcode # Num(ERR)
              IN Len(t) = 2 =>
                   /\ IsMnemonic(t[1]) =>
                         /\ ~(HasLabel(out.labels, t[1]) /\ out.labels[t[1]] = k - 1)
                         /\ ~(HasLabel(out.labels, t[2]) /\ out.labels[t[2]] = k - 1)
                         /\ good => out.instructions[k] = InstructionOf(t, out.labels)
                   /\ (~IsMnemonic(t[1]) /\ IsMnemonic(t[2])) =>
                         /\ (testLabel(t[1]) /\ Definers(stmts, t[1], k) = {}) =>
                               (HasLabel(out.labels, t[1]) /\ out.labels[t[1]] = k - 1)
                         /\ good => out.instructions[k].opcode = findOpcode(t[2])
                   /\ (~IsMnemonic(t[1]) /\ ~IsMnemonic(t[2])) =>
                         /\ Len(out.instructions) = k
                         /\ out.instructions[k] = [opcode |-> Num(ERR), operand |-> Undefined]

\* C25: a valid, not yet defined label of a statement that fails operand
\* resolution (invalid operand, or a required operand missing) is in the label
\* table, at the position of the statement's ERR instruction, for statements of
\* two and of three tokens.
C25_LabelOfFailingStatement ==
    Returned =>
        LET stmts == StatementsOf(parserOptions)
            out == result.value
            f == FirstStop(stmts)
        IN (/\ f # 0
            /\ InvalidOperand(stmts[f]) \/ MissingOperand(stmts[f])
            /\ HasLabelToken(stmts[f]) /\ testLabel(LabelToken(stmts[f]))
            /\ Definers(stmts, LabelToken(stmts[f]), f) = {}) =>
              /\ HasLabel(out.labels, LabelToken(stmts[f]))
              /\ out.labels[LabelToken(stmts[f])] = f - 1
              /\ out.instructions[f].opcode = Num(ERR)

\* C26: a statement of an I/O mnemonic without operand, alone or after a
\* label, is translated to opcode 9 with the default operand of its spelling,
\* 1 for inp, 2 for out, 22 for otc in any letter case; with an explicit
\* operand it keeps that operand.
C26_IODefaults ==
    Returned =>
        LET stmts == StatementsOf(parserOptions)
            out == result.value
        IN /\ Len(out.instructions) = Len(stmts)
           /\ \A k \in 1..Len(stmts) :
                 LET t == stmts[k]
                     spelling == ToLowerCase(OpcodeToken(t))
                 IN spelling \in {Tinp, Tout, Totc} =>
                       /\ out.instructions[k].opcode = Num(INP)
                       /\ out.instructions[k].operand =
                             IF HasOperand(t) THEN ParseInt(OperandToken(t))
                             ELSE CASE spelling = Tinp -> Num(INPUT)
                                    [] spelling = Tout -> Num(OUTPUT)
                                    [] OTHER -> Num(CHAR)

\* "Out / end otc 7 / loop otc" was translated
C26_Witness ==
    /\ Returned
    /\ parserOptions.program =
          Text(<<<<"O", "u", "t">>, Line(<<Tend, Totc, <<"7">>>>), Line(<<Tloop, Totc>>)>>)
    /\ result.value.instructions =
          <<Instr(INP, Num(OUTPUT)), Instr(INP, Num(7)), Instr(INP, Num(CHAR))>>

\* The statements of a program text, as the text is read: the lines, each cut
\* at every split sequence when splitting is enabled, each then cut off at the
\* first comment sequence when comments are enabled
RECURSIVE Flatten(_)
Flatten(seqs) == IF seqs = <<>> THEN <<>> ELSE Head(seqs) \o Flatten(Tail(seqs))

BeforeFirst(str, sequence) ==
    LET at == {i \in 1..Len(str) : MatchesAt(str, sequence, i)}
    IN IF at = {} THEN str
       ELSE SubSeq(str, 1, (CHOOSE i \in at : \A j \in at : i <= j) - 1)

SourceStatements(opts) ==
    LET lines == Split(opts.program, <<"\n">>)
        cut == IF opts.splitLines.enabled
               THEN Flatten([i \in 1..Len(lines) |-> Split(lines[i], opts.splitLines.sequence)])
               ELSE lines
        bare == [i \in 1..Len(cut) |->
                    IF opts.comments.enabled
                    THEN BeforeFirst(cut[i], opts.comments.sequence) ELSE cut[i]]
        kept == SelectSeq(bare, LAMBDA l : Trim(l) # <<>>)
    IN [k \in 1..Len(kept) |-> SplitWhiteSpace(Trim(kept[k]), <<>>)]

\* C22: for input that triggers no early stop, parse() returns as many
\* instructions as there are statements that are non-blank after splitting
\* (when enabled, a split sequence of several characters being one separator)
\* and comment stripping (when enabled, from the first comment sequence to the
\* end of the statement), and the i-th instruction is the translation of the
\* i-th such statement.
C22_OneInstructionPerStatement ==
    Returned =>
        LET stmts == SourceStatements(parserOptions)
            out == result.value
        IN FirstStop(stmts) = 0 =>
            /\ Len(out.instructions) = Len(stmts)
            /\ \A k \in 1..Len(stmts) :
                  out.instructions[k] = InstructionOf(stmts[k], out.labels)

\* "out // hlt // out;;hlt" and a line of one space were translated with
\* splitting and comments enabled
C22_Witness ==
    /\ Returned
    /\ parserOptions.comments.enabled /\ parserOptions.splitLines.enabled
    /\ parserOptions.program =
          Interleave(<<Join(<<Tout, TcommentSequence, Thlt, TcommentSequence, Tout>>, <<" ">>),
                       Thlt, <<" ">>>>, <<TsplitSequence, <<"\n">>>>)
    /\ result.value.instructions = <<Instr(INP, Num(OUTPUT)), Instr(HLT, Undefined)>>

\* C28: in every reachable state the address register and the instruction
\* register are in 0..255, whatever the memory cells hold.
C28_RegistersAreBytes ==
    /\ addressRegister \in 0..255
    /\ instructionRegister \in 0..255

\* A step() decoded a negative cell
C28_Witness ==
    /\ last.op = "step" /\ IsNum(last.raw) /\ last.raw.n < 0
    /\ addressRegister = 255 /\ instructionRegister = 255

\* C29: once step() has returned false, a later step() with no initialise()
\* or wipe() in between returns false and leaves the registers and the memory
\* unchanged.
C29_HaltIsStable ==
    [][(step /\ last.op = "step" /\ last.ret = "false") =>
        (last'.ret = "false" /\ UNCHANGED <<Registers, memory>>)]_vars

\* No cell of the memory decodes to a branch or to the store opcode
NoBranchOrStore ==
    \A i \in 0..(Len(memory) - 1) :
        CellOpcode(ArrGet(memory, i)) \notin {BRA, BRZ, BRP, STA}

\* C30: if no cell of the loaded memory decodes to a branch or to the store
\* opcode, each continuing step of run() advances the program counter by one
\* and leaves the memory alone, a fetch at or past the end of the memory makes
\* step() return false, the program counter never passes the memory length,
\* and run() terminates, by halting or by a fault.
C30_StraightRunTerminates ==
    /\ [][(runLoop /\ NoBranchOrStore) =>
            /\ last'.ret = "true" =>
                  (programCounter' = programCounter + 1 /\ memory' = memory)
            /\ programCounter >= Len(memory) => last'.ret = "false"]_vars
    /\ []((runState = "loop" /\ NoBranchOrStore) => programCounter <= Len(memory))
    /\ (runState = "loop" /\ NoBranchOrStore) ~> (runState \in {"finished", "faulted"})

\* A run() ended with a fetch past the end of the memory
C30_Witness ==
    /\ runState = "finished" /\ NoBranchOrStore
    /\ programCounter = Len(memory) /\ programCounter > 0
    /\ last.ret = "false" /\ last.raw = Undefined

\* C31: a step() that executes opcode 9 with a decoded operand other than 1, 2
\* and 22 invokes neither onInput nor onOutput, leaves the accumulator and the
\* memory unchanged, advances the program counter by one and returns true;
\* operand 1 reads input and operand 2 writes the accumulator whatever the
\* mnemonic was: a first run() of "out 1" invokes onInput once and onOutput
\* never, and a first run() of "inp 2" invokes onOutput once and onInput never.
SharedIOExecuted == ~Falsy(FetchedCell) /\ CellOpcode(FetchedCell) = INP

FirstRunOf(text) ==
    /\ runState = "finished" /\ runOrigin.op = "none"
    /\ parserOptions.program = text

C31_SharedIOByOperand ==
    /\ [][(StepTaken /\ SharedIOExecuted) =>
            /\ CellOperand(FetchedCell) \notin {INPUT, OUTPUT, CHAR} =>
                  /\ IOInvoked = <<>>
                  /\ accumulator' = accumulator /\ memory' = memory
                  /\ programCounter' = programCounter + 1
                  /\ last'.ret = "true"
            /\ CellOperand(FetchedCell) = INPUT =>
                  /\ Len(IOInvoked) = 1 /\ IOInvoked[1].ev = "onInput"
                  /\ accumulator' = IOInvoked[1].val
            /\ CellOperand(FetchedCell) = OUTPUT =>
                  IOInvoked = <<Call("onOutput", accumulator)>>]_vars
    /\ [](FirstRunOf(Text(<<Line(<<Tout, <<"1">>>>)>>)) =>
            Count(calls, {"onInput"}) = 1 /\ Count(calls, {"onOutput"}) = 0)
    /\ [](FirstRunOf(Text(<<Line(<<Tinp, <<"2">>>>)>>)) =>
            Count(calls, {"onOutput"}) = 1 /\ Count(calls, {"onInput"}) = 0)

\* A first run() of "otc 3 / out 1" passed the first statement in silence,
\* read 1 for the second and finished
C31_Witness ==
    /\ FirstRunOf(Text(<<Line(<<Totc, <<"3">>>>), Line(<<Tout, <<"1">>>>)>>))
    /\ Only(calls, {"onInput", "onOutput"}) = <<Call("onInput", Num(1))>>
    /\ accumulator = Num(1) /\ programCounter = 2
    /\ last.op = "step" /\ last.ret = "false"

====
